---- MODULE Spec2Model ----
(***************************************************************************)
(* TDK2 traceability application: the DB90 block decoder (plc_reader.py),  *)
(* the camera-directory correlator and image copier (camera_images.py),    *)
(* the CSV ledger (plc_reader.save_to_csv) and the polling loop (main.py). *)
(*                                                                         *)
(* Python values are represented as follows.  An optional value is a       *)
(* sequence of length 0 (None) or 1 (the value).  A str decoded from the   *)
(* PLC is a sequence of code points; a file or directory name is a         *)
(* sequence of one-character strings.  A datetime is a record of its       *)
(* seven fields; a timedelta is the normalised triple <<days, seconds,     *)
(* microseconds>> that Python keeps.                                       *)
(***************************************************************************)
EXTENDS Integers, Sequences, FiniteSets, TLC

VARIABLES
    \* ---- main.py: poll_loop and its environment
    running,    \* main.py global flag cleared by handle_signal
    pc,         \* position of poll_loop
    sleep_i,    \* index of the sleep loop (for _ in range(int(POLL_INTERVAL*10)))
    last_ean,   \* poll_loop local: optional str
    record,     \* poll_loop local: optional parsed record of this iteration
    folder,     \* poll_loop local: optional folder returned by save_to_csv
    pos,        \* poll_loop local: loop variable of "for pos in range(1, 4)"
    plc,        \* the controller: the block last presented, the ledger rows written
                \* for its unit by the running process
    today,      \* the wall-clock date last seen, as a day number
    csv,        \* the ledger: folder -> optional sequence of lines of data.csv
    images,     \* folder -> set of file names in <folder>/images/
    camera,     \* listing of CAMERA_DIR: sequence of entries
    iter,       \* observation of the current iteration (history variable)
    hist,       \* save_to_csv calls and new-unit events so far, the calls made before
                \* the running process started, whether it has caught an exception
                \* (history variable)
    \* ---- decoder on its own (plc_reader.parse_db90)
    data,       \* a raw buffer handed to parse_db90
    wire,       \* the fields the buffer was laid out from (history variable)
    decoded,    \* optional result of parse_db90(data)
    \* ---- camera functions on their own (camera_images.py)
    call,       \* arguments of a call
    ret         \* optional result of the call

loopVars == <<running, pc, sleep_i, last_ean, record, folder, pos>>
envVars  == <<plc, today, csv, images, camera>>
obsVars  == <<iter, hist>>
dtlVars  == <<data, wire, decoded>>
camVars  == <<call, ret>>
vars == <<running, pc, sleep_i, last_ean, record, folder, pos,
          plc, today, csv, images, camera, iter, hist,
          data, wire, decoded, call, ret>>

None == <<>>
Some(x) == <<x>>
IsNone(o) == o = <<>>
Val(o) == o[1]

(***************************************************************************)
(* plc_reader.py: the block decoder                                        *)
(***************************************************************************)
DB_NUMBER == 90
DB_SIZE == 482

\* data[k] of Python (0-based) on a buffer kept as a 1-based sequence
At(buf, k) == buf[k + 1]

\* struct formats ">b", ">H", ">i": big-endian, two's complement
UnpackInt8(buf, k) == IF At(buf, k) >= 128 THEN At(buf, k) - 256 ELSE At(buf, k)
UnpackUInt16(buf, k) == At(buf, k) * 256 + At(buf, k + 1)
UnpackInt32(buf, k) ==
    UnpackInt8(buf, k) * 16777216 + At(buf, k + 1) * 65536
        + At(buf, k + 2) * 256 + At(buf, k + 3)

\* str.rstrip("\x00 ") on a sequence of code points
RECURSIVE RStrip(_)
RStrip(s) ==
    IF s # <<>> /\ s[Len(s)] \in {0, 32} THEN RStrip(SubSeq(s, 1, Len(s) - 1)) ELSE s

\* bytes.decode("ascii", errors="replace"): a byte above 127 becomes U+FFFD
DecodeAscii(bytes) == [i \in 1..Len(bytes) |-> IF bytes[i] >= 128 THEN 65533 ELSE bytes[i]]

parse_ean(buf) == RStrip(DecodeAscii(SubSeq(buf, 5, 131)))

\* datetime.date: Gregorian leap years and month lengths
IsLeap(y) == (y % 4 = 0) /\ ((y % 100 # 0) \/ (y % 400 = 0))
DaysInMonth(y, m) ==
    IF m = 2 THEN (IF IsLeap(y) THEN 29 ELSE 28)
    ELSE IF m \in {4, 6, 9, 11} THEN 30 ELSE 31

\* datetime(year, month, day, hour, minute, second, microsecond): the value,
\* or None standing for the ValueError the constructor raises
datetime(y, m, d, hh, mm, ss, us) ==
    IF /\ 1 <= y /\ y <= 9999
       /\ 1 <= m /\ m <= 12
       /\ 1 <= d /\ d <= DaysInMonth(y, m)
       /\ 0 <= hh /\ hh <= 23
       /\ 0 <= mm /\ mm <= 59
       /\ 0 <= ss /\ ss <= 59
       /\ 0 <= us /\ us <= 999999
    THEN Some([year |-> y, month |-> m, day |-> d, hour |-> hh,
               minute |-> mm, second |-> ss, microsecond |-> us])
    ELSE None

\* A fault model of parse_dtl: nanoseconds reduced modulo 1000 instead of divided
parse_dtl_modulo(buf, offset) ==
    LET chunk == SubSeq(buf, offset + 1, offset + 12)
        year == UnpackUInt16(chunk, 0)
        month == At(chunk, 2)
        day == At(chunk, 3)
        nanosec == UnpackInt32(chunk, 8)
    IN  IF year = 0 /\ month = 0 /\ day = 0 THEN None
        ELSE datetime(year, month, day, At(chunk, 5), At(chunk, 6), At(chunk, 7),
                      nanosec % 1000)

parse_dtl(buf, offset) ==
    LET chunk == SubSeq(buf, offset + 1, offset + 12)
        year == UnpackUInt16(chunk, 0)
        month == At(chunk, 2)
        day == At(chunk, 3)
        hour == At(chunk, 5)
        minute == At(chunk, 6)
        sec == At(chunk, 7)
        nanosec == UnpackInt32(chunk, 8)
    IN  IF year = 0 /\ month = 0 /\ day = 0 THEN None
        ELSE datetime(year, month, day, hour, minute, sec, nanosec \div 1000)

\* 63 big-endian float32 values from offset 132, kept as their 32-bit patterns
parse_ljs_data(buf) == [i \in 1..63 |-> UnpackInt32(buf, 132 + 4 * (i - 1))]

\* parse_db90: the record, or None standing for the struct.error that
\* unpack_from raises on a buffer shorter than the layout
parse_db90(buf) ==
    IF Len(buf) < DB_SIZE THEN None
    ELSE Some([id |-> UnpackInt8(buf, 0),
               presence |-> At(buf, 1) # 0,
               result_total |-> UnpackInt8(buf, 2),
               ean |-> parse_ean(buf),
               ljs |-> parse_ljs_data(buf),
               positions |-> [i \in 1..7 |->
                   [result |-> UnpackInt8(buf, 384 + (i - 1) * 14),
                    timestamp |-> parse_dtl(buf, 384 + (i - 1) * 14 + 2)]]])

(***************************************************************************)
(* camera_images.py: directory names, nearest directory, image copy        *)
(***************************************************************************)
Digits == <<"0", "1", "2", "3", "4", "5", "6", "7", "8", "9">>
DigitChars == {Digits[i] : i \in 1..10}
DigitVal(c) == (CHOOSE i \in 1..10 : Digits[i] = c) - 1
AllDigits(s) == \A i \in 1..Len(s) : s[i] \in DigitChars

\* int(s) for a str of decimal digits (the names' alphabet here is digits,
\* letters, "-", "_" and "."; any other str of that alphabet is a ValueError)
IntOf(s) ==
    LET acc[n \in 0..Len(s)] ==
            IF n = 0 THEN 0 ELSE acc[n - 1] * 10 + DigitVal(s[n])
    IN  acc[Len(s)]

\* index of the last occurrence of character c in s, 0 when absent
LastIndexOf(s, c) ==
    IF \E i \in 1..Len(s) : s[i] = c
    THEN CHOOSE i \in 1..Len(s) : s[i] = c /\ \A j \in (i + 1)..Len(s) : s[j] # c
    ELSE 0

\* str.split(c) on a str
Split(s, c) ==
    LET seps == {i \in 1..Len(s) : s[i] = c}
        n == Cardinality(seps)
        \* the k-th separator, with the ends of s as separators 0 and n + 1
        SepAt(k) == IF k = 0 THEN 0
                    ELSE IF k = n + 1 THEN Len(s) + 1
                    ELSE CHOOSE i \in seps : Cardinality({j \in seps : j < i}) = k - 1
    IN  [k \in 1..(n + 1) |-> SubSeq(s, SepAt(k - 1) + 1, SepAt(k) - 1)]

\* one numeric directive of strptime: a token of lo..hi digits, all digits
FieldOk(tok, minLen, maxLen) == Len(tok) >= minLen /\ Len(tok) <= maxLen /\ AllDigits(tok)

\* datetime.strptime(s, "%Y-%m-%d_%H-%M-%S"): the datetime, or None standing
\* for ValueError.  %Y is four digits; %m 1..12, %d 1..31, %H 0..23, %M 0..59
\* and %S 0..61 are one or two digits; the literals must match and nothing may
\* remain; the fields then go through the datetime constructor.
strptime(s) ==
    LET p == Split(s, "-")
        dh == IF Len(p) = 5 THEN Split(p[3], "_") ELSE <<>>
    IN  IF Len(p) # 5 \/ Len(dh) # 2 THEN None
        ELSE IF ~ ( /\ FieldOk(p[1], 4, 4)
                    /\ FieldOk(p[2], 1, 2) /\ IntOf(p[2]) \in 1..12
                    /\ FieldOk(dh[1], 1, 2) /\ IntOf(dh[1]) \in 1..31
                    /\ FieldOk(dh[2], 1, 2) /\ IntOf(dh[2]) \in 0..23
                    /\ FieldOk(p[4], 1, 2) /\ IntOf(p[4]) \in 0..59
                    /\ FieldOk(p[5], 1, 2) /\ IntOf(p[5]) \in 0..61 )
        THEN None
        ELSE datetime(IntOf(p[1]), IntOf(p[2]), IntOf(dh[1]), IntOf(dh[2]),
                      IntOf(p[4]), IntOf(p[5]), 0)

\* str.ljust(6, "0")[:6]
LJust6(s) == SubSeq(s \o <<"0", "0", "0", "0", "0", "0">>, 1, 6)

parse_camera_dir_name(name) ==
    LET k == LastIndexOf(name, "-")
        base_str == SubSeq(name, 1, k - 1)
        frac_str == LJust6(SubSeq(name, k + 1, Len(name)))
        dt == strptime(base_str)
    IN  IF k = 0 THEN None                       \* len(parts) != 2
        ELSE IF IsNone(dt) THEN None             \* ValueError from strptime
        ELSE IF ~AllDigits(frac_str) THEN None   \* ValueError from int()
        ELSE Some([Val(dt) EXCEPT !.microsecond = IntOf(frac_str)])

\* date.toordinal()
DaysBeforeYear(y) == (y - 1) * 365 + (y - 1) \div 4 - (y - 1) \div 100 + (y - 1) \div 400
RECURSIVE DaysBeforeMonth(_, _)
DaysBeforeMonth(y, m) == IF m = 1 THEN 0 ELSE DaysBeforeMonth(y, m - 1) + DaysInMonth(y, m - 1)
ToOrdinal(dt) == DaysBeforeYear(dt.year) + DaysBeforeMonth(dt.year, dt.month) + dt.day

\* timedelta(days, seconds, microseconds) with Python's normalisation
timedelta(d, s, us) ==
    LET s1 == s + us \div 1000000
    IN  <<d + s1 \div 86400, s1 % 86400, us % 1000000>>

\* a - b on datetimes
DtSub(a, b) ==
    timedelta(ToOrdinal(a) - ToOrdinal(b),
              (a.hour * 3600 + a.minute * 60 + a.second)
                  - (b.hour * 3600 + b.minute * 60 + b.second),
              a.microsecond - b.microsecond)

\* abs(td)
TdAbs(td) == IF td[1] < 0 THEN timedelta(-td[1], -td[2], -td[3]) ELSE td

\* td1.total_seconds() < td2.total_seconds(), on the exact values
TdLess(a, b) ==
    \/ a[1] < b[1]
    \/ a[1] = b[1] /\ a[2] < b[2]
    \/ a[1] = b[1] /\ a[2] = b[2] /\ a[3] < b[3]

\* A fault model of the scan: "<=" for "<", so the last of equal deltas wins
RECURSIVE ScanEntriesLastWins(_, _, _, _)
ScanEntriesLastWins(entries, plc_timestamp, i, best) ==
    IF i > Len(entries) THEN best
    ELSE LET entry == entries[i]
             dir_dt == parse_camera_dir_name(entry.name)
             delta == TdAbs(DtSub(Val(dir_dt), plc_timestamp))
         IN  IF entry.kind # "dir" \/ IsNone(dir_dt)
             THEN ScanEntriesLastWins(entries, plc_timestamp, i + 1, best)
             ELSE IF IsNone(best) \/ ~TdLess(Val(best).delta, delta)
             THEN ScanEntriesLastWins(entries, plc_timestamp, i + 1,
                                      Some([path |-> i, delta |-> delta]))
             ELSE ScanEntriesLastWins(entries, plc_timestamp, i + 1, best)

\* the loop "for entry in all_entries" from entry i on; best is the optional
\* pair (best_path, best_delta); a path is the index of the entry in the listing
RECURSIVE ScanEntries(_, _, _, _)
ScanEntries(entries, plc_timestamp, i, best) ==
    IF i > Len(entries) THEN best
    ELSE LET entry == entries[i]
             dir_dt == parse_camera_dir_name(entry.name)
             delta == TdAbs(DtSub(Val(dir_dt), plc_timestamp))
         IN  IF entry.kind # "dir" THEN ScanEntries(entries, plc_timestamp, i + 1, best)
             ELSE IF IsNone(dir_dt) THEN ScanEntries(entries, plc_timestamp, i + 1, best)
             ELSE IF IsNone(best) \/ TdLess(delta, Val(best).delta)
             THEN ScanEntries(entries, plc_timestamp, i + 1,
                              Some([path |-> i, delta |-> delta]))
             ELSE ScanEntries(entries, plc_timestamp, i + 1, best)

\* find_closest_camera_dir(plc_timestamp, camera_dir) on the listing of
\* camera_dir: the optional index of the best entry
find_closest_camera_dir(plc_timestamp, entries) ==
    LET best == ScanEntries(entries, plc_timestamp, 1, None)
    IN  IF IsNone(best) THEN None ELSE Some(Val(best).path)

StartsWith(s, prefix) ==
    Len(s) >= Len(prefix) /\ SubSeq(s, 1, Len(prefix)) = prefix

\* A fault model of the prefix: no underscore after the digit
PozPrefixBare(position) == <<"P", "O", "Z", Digits[position + 1]>>

\* f"POZ{position}_"
PozPrefix(position) == <<"P", "O", "Z", Digits[position + 1], "_">>

\* copy_position_image(camera_folder, position, dest_folder) on the listing
\* all_files of camera_folder and the content of dest_folder/images: the first
\* entry that starts with the prefix and is a regular file is copied
copy_position_image(all_files, position, dest) ==
    LET prefix == PozPrefix(position)
        hits == {i \in 1..Len(all_files) :
                    StartsWith(all_files[i].name, prefix) /\ all_files[i].kind = "file"}
        first == CHOOSE i \in hits : \A j \in hits : i <= j
    IN  IF hits = {} THEN [ret |-> FALSE, copied |-> <<>>, images |-> dest]
        ELSE [ret |-> TRUE, copied |-> <<all_files[first].name>>,
              images |-> dest \cup {all_files[first].name}]

(***************************************************************************)
(* plc_reader.py: the ledger                                               *)
(***************************************************************************)
\* the characters save_to_csv replaces: : \ / * ? " < > |
IllegalCodes == {58, 92, 47, 42, 63, 34, 60, 62, 124}
Sanitize(ean) == [i \in 1..Len(ean) |-> IF ean[i] \in IllegalCodes THEN 95 ELSE ean[i]]
UNKNOWN == <<85, 78, 75, 78, 79, 87, 78>>

\* format_timestamp: "" for None, else the text of the seven fields
format_timestamp(ts) == IF IsNone(ts) THEN <<>> ELSE
    <<Val(ts).year, Val(ts).month, Val(ts).day, Val(ts).hour, Val(ts).minute,
      Val(ts).second, Val(ts).microsecond>>

\* the header line of data.csv (the column names are one constant line)
CSV_HEADER == [kind |-> "header", date |-> 0, id |-> 0, presence |-> 0,
               result_total |-> 0, ean |-> <<>>, positions |-> <<>>, call |-> 0]

\* the line save_to_csv writes for a record (the 63 formatted measurement
\* columns are left out of the line; call is a history tag: the number of the
\* save_to_csv call that wrote the line)
CsvRow(rec, now, tag) ==
    [kind |-> "row", date |-> now, id |-> rec.id,
     presence |-> IF rec.presence THEN 1 ELSE 0,
     result_total |-> rec.result_total, ean |-> rec.ean,
     positions |-> [i \in 1..7 |-> <<rec.positions[i].result,
                                     format_timestamp(rec.positions[i].timestamp)>>],
     call |-> tag]

FolderOf(rec, now) ==
    [date |-> now, name |-> Sanitize(IF rec.ean # <<>> THEN rec.ean ELSE UNKNOWN)]

\* A fault model of save_to_csv: the file opened with mode "w"
save_to_csv_truncating(rec, now, files, tag) ==
    LET fld == FolderOf(rec, now)
        file_exists == fld \in DOMAIN files
        written == (IF file_exists THEN <<>> ELSE <<CSV_HEADER>>) \o <<CsvRow(rec, now, tag)>>
    IN  [folder |-> fld, files |-> (fld :> written) @@ files]

\* save_to_csv(record, base_dir) at date now on the ledger files (folder ->
\* lines of data.csv): the folder returned and the files afterwards
save_to_csv(rec, now, files, tag) ==
    LET fld == FolderOf(rec, now)
        file_exists == fld \in DOMAIN files
        before == IF file_exists THEN files[fld] ELSE <<>>
        written == (IF file_exists THEN <<>> ELSE <<CSV_HEADER>>) \o <<CsvRow(rec, now, tag)>>
    IN  [folder |-> fld, files |-> (fld :> (before \o written)) @@ files]

(***************************************************************************)
(* The DB90 layout as the controller writes it (the inverse of the struct  *)
(* formats of plc_reader.py): buffers are laid out from field values.      *)
(***************************************************************************)
EncodeInt32(n) ==
    <<(n \div 16777216) % 256, (n \div 65536) % 256, (n \div 256) % 256, n % 256>>
EncodeDTL(f) ==
    <<f.year \div 256, f.year % 256, f.month, f.day, f.weekday, f.hour, f.minute,
      f.second>> \o EncodeInt32(f.nanosecond)
Dtl(y, m, d, hh, mm, ss, ns) ==
    [year |-> y, month |-> m, day |-> d, weekday |-> 3, hour |-> hh, minute |-> mm,
     second |-> ss, nanosecond |-> ns]
ZeroDtl == [year |-> 0, month |-> 0, day |-> 0, weekday |-> 0, hour |-> 0, minute |-> 0,
            second |-> 0, nanosecond |-> 0]

\* the buffer of w.size bytes holding identifier bytes w.ean and date-times w.dtl
Layout(w) ==
    [k \in 1..w.size |->
        LET idx == k - 1
            slot == (idx - 384) \div 14 + 1
            off == (idx - 384) % 14
        IN  IF idx = 0 THEN w.id
            ELSE IF idx = 1 THEN 1
            ELSE IF idx >= 4 /\ idx < 4 + Len(w.ean) THEN w.ean[idx - 3]
            ELSE IF idx >= 384 /\ off = 0 THEN 1
            ELSE IF idx >= 384 /\ off >= 2 THEN EncodeDTL(w.dtl[slot])[off - 1]
            ELSE 0]

(***************************************************************************)
(* Bounds and the inputs drawn from them                                   *)
(***************************************************************************)
MaxEvents == 2         \* new-unit events in one run
MaxDay == 2            \* wall-clock days
SleepIncrements == 1   \* int(POLL_INTERVAL * 10)

\* 2026-02-10 11:06:39.123 as the controller stamps it, and a stamp whose
\* month is 13
StampA == Dtl(2026, 2, 10, 11, 6, 39, 123000000)
StampBad == Dtl(2026, 13, 10, 11, 6, 44, 0)

Wire(ean, d1, d2, d3) ==
    [size |-> DB_SIZE, id |-> 7, ean |-> ean,
     dtl |-> <<d1, d2, d3, ZeroDtl, ZeroDtl, ZeroDtl, ZeroDtl>>]

\* the blocks the controller can present: no unit; "A/" (space padded) with
\* positions 1 and 2 stamped; "A:" with no usable stamp
PlcBlocks ==
    << Wire(<<>>, ZeroDtl, ZeroDtl, ZeroDtl),
       Wire(<<65, 47, 32>>, StampA, StampA, ZeroDtl),
       Wire(<<65, 58>>, StampBad, ZeroDtl, ZeroDtl) >>

\* what read_db90 returns for each block, and what parse_db90 makes of it and
\* of a read one byte short
PlcBuffers == [b \in 1..Len(PlcBlocks) |-> Layout(PlcBlocks[b])]
PlcRecords == [b \in 1..Len(PlcBlocks) |-> parse_db90(PlcBuffers[b])]
ShortRecords ==
    [b \in 1..Len(PlcBlocks) |-> parse_db90(SubSeq(PlcBuffers[b], 1, DB_SIZE - 1))]

\* names the listener can create under CAMERA_DIR and store into an entry
DirA == <<"2","0","2","6","-","0","2","-","1","0","_","1","1","-","0","6","-","3","9","-","1","2","3","4">>
DirJunk == <<"t","m","p">>
DirNames == {DirA}
Poz1 == <<"P","O","Z","1","_","a",".","j","p","g">>
Poz2 == <<"P","O","Z","2","_","a",".","j","p","g">>
FileNames == {Poz1, Poz2}

(***************************************************************************)
(* main.py: poll_loop                                                      *)
(***************************************************************************)
IterIdle == [fired |-> FALSE, err |-> "none", ean |-> <<>>, ops |-> <<>>]

\* A fault model of the test at line 97: the comparison with last_ean dropped
is_new_piece_any(current_ean, last) == current_ean # <<>>

\* "if current_ean and current_ean != last_ean"
is_new_piece(current_ean, last) == current_ean # <<>> /\ Some(current_ean) # last

\* the end of an iteration's try block or its except clause: on to the sleep loop
ToSleep ==
    /\ pc' = "sleep"
    /\ sleep_i' = 0
    /\ record' = None
    /\ folder' = None
    /\ pos' = 0

\* A fault model of the handler: the exception leaves the loop
Uncaught(kind) ==
    /\ pc' = "stopped"
    /\ UNCHANGED <<sleep_i, record, folder, pos, last_ean>>
    /\ iter' = [iter EXCEPT !.err = kind]
    /\ hist' = [hist EXCEPT !.caught = TRUE]

\* A fault model of the handler: the identifier of a fired event is recorded
\* as seen although its branch raised
CaughtMarkingSeen(kind) ==
    /\ ToSleep
    /\ last_ean' = IF iter.fired THEN Some(iter.ean) ELSE last_ean
    /\ iter' = [iter EXCEPT !.err = kind]
    /\ hist' = [hist EXCEPT !.caught = TRUE]

\* "except Exception: logger.exception(...)"
Caught(kind) ==
    /\ ToSleep
    /\ last_ean' = last_ean
    /\ iter' = [iter EXCEPT !.err = kind]
    /\ hist' = [hist EXCEPT !.caught = TRUE]

\* "while running:"
WhileCheck ==
    /\ pc = "while"
    /\ pc' = IF running THEN "read" ELSE "stopped"
    /\ iter' = IterIdle
    /\ UNCHANGED <<running, sleep_i, last_ean, record, folder, pos, hist>>
    /\ UNCHANGED envVars /\ UNCHANGED dtlVars /\ UNCHANGED camVars

\* read_db90 returns the image of block b, which the controller presents at
\* this read, and parse_db90 returns rec for it (None: it raises); the test of
\* line 97 follows.  plc.rows counts the ledger rows of the unit at the
\* station by the running process: a block other than the last one presented
\* is another unit.
Poll(b, rec) ==
    /\ pc = "read"
    /\ IF IsNone(rec)
       THEN /\ Caught("decode")
            /\ plc' = IF b = plc.block THEN plc ELSE [block |-> b, rows |-> 0]
       ELSE /\ is_new_piece(Val(rec).ean, last_ean) => hist.fired < MaxEvents
            /\ plc' = IF b = plc.block THEN plc ELSE [block |-> b, rows |-> 0]
            /\ iter' = [IterIdle EXCEPT
                           !.fired = is_new_piece(Val(rec).ean, last_ean),
                           !.ean = Val(rec).ean]
            /\ IF is_new_piece(Val(rec).ean, last_ean)
               THEN /\ pc' = "save"
                    /\ record' = rec
                    /\ hist' = [hist EXCEPT !.fired = @ + 1]
                    /\ UNCHANGED <<sleep_i, folder, pos>>
               ELSE ToSleep /\ hist' = hist
            /\ UNCHANGED last_ean
    /\ UNCHANGED running
    /\ UNCHANGED <<today, csv, images, camera>> /\ UNCHANGED dtlVars /\ UNCHANGED camVars

PollBlock == \E b \in 1..Len(PlcBlocks) : Poll(b, PlcRecords[b])

\* the transport hands back fewer than DB_SIZE bytes
PollShort == Poll(plc.block, ShortRecords[plc.block])

\* read_db90 raises
ReadFail ==
    /\ pc = "read"
    /\ Caught("read")
    /\ UNCHANGED running
    /\ UNCHANGED envVars /\ UNCHANGED dtlVars /\ UNCHANGED camVars

\* A fault model of line 99: the folder is derived but the append is left
\* for after the loop over the positions
SaveLate ==
    /\ pc = "save"
    /\ folder' = Some(FolderOf(Val(record), today))
    /\ pos' = 1
    /\ pc' = "pos"
    /\ UNCHANGED <<running, sleep_i, last_ean, record>>
    /\ UNCHANGED obsVars /\ UNCHANGED envVars /\ UNCHANGED dtlVars /\ UNCHANGED camVars

\* "folder = save_to_csv(record, base_dir=BASE_DIR)"; datetime.now() gives
\* date now, not before the date last seen
SaveOk ==
    /\ pc = "save"
    /\ \E now \in today..MaxDay :
        LET r == save_to_csv(Val(record), now, csv, hist.calls + 1)
        IN  /\ csv' = r.files
            /\ folder' = Some(r.folder)
            /\ today' = now
    /\ pos' = 1
    /\ pc' = "pos"
    /\ iter' = [iter EXCEPT !.ops = Append(@, "persist")]
    /\ hist' = [hist EXCEPT !.calls = @ + 1]
    /\ plc' = [plc EXCEPT !.rows = @ + 1]
    /\ UNCHANGED <<running, sleep_i, last_ean, record>>
    /\ UNCHANGED <<images, camera>> /\ UNCHANGED dtlVars /\ UNCHANGED camVars

\* save_to_csv raises (os.makedirs or open fails) before data.csv is touched
SaveFail ==
    /\ pc = "save"
    /\ Caught("branch")
    /\ UNCHANGED running
    /\ UNCHANGED envVars /\ UNCHANGED dtlVars /\ UNCHANGED camVars

\* the end of one pass of "for pos in range(1, 4)"; after the last pass line
\* 111, "last_ean = current_ean", ends the try block
NextPos ==
    IF pos = 3
    THEN /\ last_ean' = Some(Val(record).ean)
         /\ ToSleep
    ELSE /\ pos' = pos + 1
         /\ UNCHANGED <<pc, sleep_i, last_ean, record, folder>>

\* one pass of the loop over positions 1..3: the timestamp test, then
\* find_closest_camera_dir and, on a match, copy_position_image.  The two
\* calls are one step: a store between them has the effect of a store before
\* both (the match reads entry names only), a mkdir that of one after both.
PositionStep ==
    /\ pc = "pos"
    /\ LET pos_ts == Val(record).positions[pos].timestamp
           match == find_closest_camera_dir(Val(pos_ts), camera)
           dest == IF Val(folder) \in DOMAIN images THEN images[Val(folder)] ELSE {}
           done == copy_position_image(camera[Val(match)].files, pos, dest)
       IN  IF IsNone(pos_ts)
           THEN UNCHANGED <<images, iter>>
           ELSE IF IsNone(match)
           THEN /\ iter' = [iter EXCEPT !.ops = Append(@, "correlate")]
                /\ UNCHANGED images
           ELSE /\ iter' = [iter EXCEPT !.ops = Append(Append(@, "correlate"), "move")]
                /\ images' = (Val(folder) :> done.images) @@ images
    /\ NextPos
    /\ UNCHANGED <<running, hist>>
    /\ UNCHANGED <<plc, today, csv, camera>> /\ UNCHANGED dtlVars /\ UNCHANGED camVars

\* find_closest_camera_dir or copy_position_image raises (os.listdir,
\* os.makedirs or shutil.copy2 fails)
PositionFail ==
    /\ pc = "pos"
    /\ ~IsNone(Val(record).positions[pos].timestamp)
    /\ Caught("branch")
    /\ UNCHANGED running
    /\ UNCHANGED envVars /\ UNCHANGED dtlVars /\ UNCHANGED camVars

\* A fault model of the sleep loop: one fixed sleep that ignores the flag
SleepWhole ==
    /\ pc = "sleep"
    /\ IF sleep_i < SleepIncrements
       THEN sleep_i' = sleep_i + 1 /\ pc' = pc
       ELSE sleep_i' = 0 /\ pc' = "while"
    /\ UNCHANGED <<running, last_ean, record, folder, pos>>
    /\ UNCHANGED obsVars /\ UNCHANGED envVars /\ UNCHANGED dtlVars /\ UNCHANGED camVars

\* one pass of "for _ in range(int(POLL_INTERVAL * 10))": the test of the
\* flag, then time.sleep(0.1)
SleepStep ==
    /\ pc = "sleep"
    /\ IF sleep_i < SleepIncrements /\ running
       THEN sleep_i' = sleep_i + 1 /\ pc' = pc
       ELSE sleep_i' = 0 /\ pc' = "while"
    /\ UNCHANGED <<running, last_ean, record, folder, pos>>
    /\ UNCHANGED obsVars /\ UNCHANGED envVars /\ UNCHANGED dtlVars /\ UNCHANGED camVars

\* handle_signal: SIGINT or SIGTERM arrives
handle_signal ==
    /\ running
    /\ running' = FALSE
    /\ UNCHANGED <<pc, sleep_i, last_ean, record, folder, pos>>
    /\ UNCHANGED obsVars /\ UNCHANGED envVars /\ UNCHANGED dtlVars /\ UNCHANGED camVars

\* the process is started again after poll_loop has returned: module state
\* and locals are fresh, the files are what they were
Restart ==
    /\ pc = "stopped"
    /\ running' = TRUE
    /\ pc' = "while"
    /\ sleep_i' = 0
    /\ last_ean' = None
    /\ record' = None
    /\ folder' = None
    /\ pos' = 0
    /\ iter' = IterIdle
    /\ hist' = [hist EXCEPT !.boot = hist.calls, !.caught = FALSE]
    /\ plc' = [plc EXCEPT !.rows = 0]
    /\ UNCHANGED <<today, csv, images, camera>> /\ UNCHANGED dtlVars /\ UNCHANGED camVars

(***************************************************************************)
(* The environment: the file-transfer listener                             *)
(***************************************************************************)
\* ftp_server.py: the listener creates a directory under its root
FtpMkdir ==
    /\ \E n \in DirNames :
        /\ \A i \in 1..Len(camera) : camera[i].name # n
        /\ camera' = Append(camera, [name |-> n, kind |-> "dir", files |-> <<>>])
    /\ UNCHANGED loopVars /\ UNCHANGED obsVars
    /\ UNCHANGED <<plc, today, csv, images>> /\ UNCHANGED dtlVars /\ UNCHANGED camVars

\* ftp_server.py: the listener stores one more file into a directory
FtpStore ==
    /\ \E i \in 1..Len(camera), n \in FileNames :
        /\ \A j \in 1..Len(camera[i].files) : camera[i].files[j].name # n
        /\ camera' = [camera EXCEPT ![i].files = Append(@, [name |-> n, kind |-> "file"])]
    /\ UNCHANGED loopVars /\ UNCHANGED obsVars
    /\ UNCHANGED <<plc, today, csv, images>> /\ UNCHANGED dtlVars /\ UNCHANGED camVars

IdleDtl == data = <<>> /\ wire = <<>> /\ decoded = None
IdleCam == call = <<>> /\ ret = None

LoopInit ==
    /\ running = TRUE
    /\ pc = "while"
    /\ sleep_i = 0
    /\ last_ean = None
    /\ record = None
    /\ folder = None
    /\ pos = 0
    /\ plc = [block |-> 1, rows |-> 0]
    /\ today = 1
    /\ csv = <<>>
    /\ images = <<>>
    /\ camera = <<>>
    /\ iter = IterIdle
    /\ hist = [calls |-> 0, fired |-> 0, boot |-> 0, caught |-> FALSE]

Init == LoopInit /\ IdleDtl /\ IdleCam

LoopStep ==
    \/ WhileCheck
    \/ PollBlock
    \/ PollShort
    \/ ReadFail
    \/ SaveOk
    \/ SaveFail
    \/ SleepStep
    \/ PositionFail
    \/ PositionStep

Next ==
    \/ LoopStep
    \/ handle_signal
    \/ Restart
    \/ FtpMkdir
    \/ FtpStore

Spec == Init /\ [][Next]_vars

\* the interpreter keeps running the loop's thread
FairSpec == Spec /\ WF_vars(LoopStep)

(***************************************************************************)
(* Properties of the polling loop (checked under Spec or FairSpec)         *)
(***************************************************************************)
IsPrefix(a, b) == Len(a) <= Len(b) /\ SubSeq(b, 1, Len(a)) = a
Rows(f) == {i \in 2..Len(csv[f]) : csv[f][i].kind = "row"}
Changed(f) == f \notin DOMAIN images \/ images'[f] # images[f]

\* C1: whenever the change detector fires, lastIdentifier becomes the
\* identifier that fired: at the end of an iteration in which a new-unit event
\* fired, last_ean is the identifier of that event (so polling X, X fires once).
C1_FiredSetsLastIdentifier ==
    (pc = "sleep" /\ iter.fired) => last_ean = Some(iter.ean)

\* C2: every detected unit gets exactly one ledger row whatever happens to
\* its images: at the end of an iteration that detected a unit and appended
\* its row, the unit at the station has exactly one row, never more.
C2_OneRowPerUnit ==
    (pc = "sleep" /\ iter.fired /\ iter.ops # <<>>) => plc.rows = 1

\* C3: data.csv is one header line followed by one row per successful
\* save_to_csv call for its folder, in call order; a call writes the header
\* exactly when the file did not exist before it, and every earlier content
\* of a file is a prefix of its later content, restarts included.
C3_FileShape ==
    /\ \A f \in DOMAIN csv :
        /\ Len(csv[f]) >= 2
        /\ csv[f][1] = CSV_HEADER
        /\ \A i \in 2..Len(csv[f]) :
            /\ csv[f][i].kind = "row"
            /\ f = [date |-> csv[f][i].date, name |-> Sanitize(csv[f][i].ean)]
            /\ \A j \in 2..(i - 1) : csv[f][j].call < csv[f][i].call
    /\ \A k \in 1..hist.calls :
        Cardinality({x \in {<<f, i>> : f \in DOMAIN csv, i \in 1..MaxEvents + 2} :
                        x[2] \in Rows(x[1]) /\ csv[x[1]][x[2]].call = k}) = 1
C3_AppendStep ==
    /\ \A f \in DOMAIN csv : f \in DOMAIN csv' /\ IsPrefix(csv[f], csv'[f])
    /\ \A f \in DOMAIN csv' :
        LET before == IF f \in DOMAIN csv THEN csv[f] ELSE <<>>
            added == SubSeq(csv'[f], Len(before) + 1, Len(csv'[f]))
        IN  \/ added = <<>>
            \/ f \in DOMAIN csv /\ Len(added) = 1 /\ added[1].kind = "row"
            \/ f \notin DOMAIN csv /\ Len(added) = 2 /\ added[1] = CSV_HEADER
                   /\ added[2].kind = "row"
C4_FailureIsolation ==
    /\ [][(iter.err = "none" /\ iter'.err # "none")
            => (pc' = "sleep" /\ last_ean' = last_ean /\ running' = running)]_vars
    /\ [][(iter.err = "none" /\ iter'.err \in {"read", "decode"})
            => (pc = "read" /\ ~iter'.fired /\ hist'.fired = hist.fired
                /\ csv' = csv /\ images' = images)]_vars
    /\ [][(pc = "read" /\ pc' # "read" /\ iter'.err = "none"
           /\ iter'.ean # <<>> /\ Some(iter'.ean) # last_ean)
            => (pc' = "save" /\ iter'.fired)]_vars
    /\ [](iter.err # "none" => <>(pc = "read" \/ ~running))

\* C4 witness: a unit is detected by a poll made after the running process
\* caught an exception
C4_DetectedAfterFailure == hist.caught /\ pc = "save" /\ iter.fired

\* C5: poll_loop stops only once the shutdown flag is set, and then it does
\* stop: no iteration starts with the flag set, the sleep loop leaves at the
\* next increment, and "stopped" is reached.
C5_StopsOnShutdownOnly ==
    /\ [](pc = "stopped" => ~running)
    /\ [][(pc # "stopped" /\ pc' = "stopped") => (pc = "while" /\ ~running)]_vars
    /\ [][(pc # "read" /\ pc' = "read") => (pc = "while" /\ running)]_vars
    /\ [][(pc = "sleep" /\ ~running /\ <<pc, sleep_i>>' # <<pc, sleep_i>>)
            => pc' = "while"]_vars
    /\ (~running ~> pc = "stopped")

\* C5 witness: the loop has stopped on the flag after handling a unit
C5_StoppedAfterSignal == pc = "stopped" /\ ~running /\ last_ean # None

\* C9 as stated: the ledger append of an event happens only after correlation
\* and moving for positions 1..3, so no position is still to be handled once
\* the row is appended.
C9_PersistAfterPositions ==
    (\E i \in 1..Len(iter.ops) : iter.ops[i] = "persist") => pc # "pos"

\* C9 amended: the event branch appends the ledger row first, then handles
\* positions 1..3 in turn (correlating, and moving only after a correlation);
\* the folder returned by the append is the destination of every copy.
C9_Order ==
    /\ iter.ops # <<>> => iter.ops[1] = "persist"
    /\ \A i \in 2..Len(iter.ops) :
        /\ iter.ops[i] # "persist"
        /\ iter.ops[i] = "move" => iter.ops[i - 1] = "correlate"
    /\ pc = "pos" =>
        /\ iter.ops # <<>>
        /\ ~IsNone(folder)
        /\ Val(folder) \in DOMAIN csv
        /\ csv[Val(folder)][Len(csv[Val(folder)])].call = hist.calls
C9_PersistFirst ==
    /\ []C9_Order
    /\ [][\A f \in DOMAIN images' : Changed(f) => (pc = "pos" /\ folder = Some(f))]_vars

\* C9 witness: an event branch that appended, then correlated and moved for
\* positions 1 and 2, has completed
C9_BranchDone ==
    /\ pc = "sleep"
    /\ iter.ops = <<"persist", "correlate", "move", "correlate", "move">>
    /\ last_ean = Some(iter.ean)

\* C10: with the listener storing files concurrently, images are copied only
\* inside an event branch, for a record whose identifier differs from
\* last_ean; a poll that shows the identifier held in last_ean goes straight
\* to the sleep loop.  So files stored after the iteration that detected a
\* unit are not copied for it while its identifier stays.
C10_NoLateTransfer ==
    /\ [][\A f \in DOMAIN images' : Changed(f) =>
            (pc = "pos" /\ folder = Some(f) /\ ~IsNone(record)
             /\ Some(Val(record).ean) # last_ean)]_vars
    /\ [][(pc = "read" /\ pc' # "read" /\ iter'.err = "none"
           /\ Some(iter'.ean) = last_ean)
            => (pc' = "sleep" /\ ~iter'.fired /\ images' = images /\ csv' = csv)]_vars

\* C10 witness: a later poll has shown the same identifier without firing;
\* the unit's row is in the ledger and the image of one position was copied,
\* while the matched directory now holds a file for another stamped position
\* that the unit's images folder lacks
C10_PartialImageSet ==
    /\ pc = "sleep" /\ ~iter.fired /\ iter.err = "none" /\ Some(iter.ean) = last_ean
    /\ \E f \in DOMAIN csv \cap DOMAIN images :
        LET rec == Val(PlcRecords[plc.block])
            Has(names, p) == \E n \in names : StartsWith(n, PozPrefix(p))
            Late(p) ==
                LET ts == rec.positions[p].timestamp
                    m == find_closest_camera_dir(Val(ts), camera)
                IN  /\ ~IsNone(ts)
                    /\ ~IsNone(m)
                    /\ Has({camera[Val(m)].files[j].name :
                               j \in 1..Len(camera[Val(m)].files)}, p)
                    /\ ~Has(images[f], p)
        IN  /\ f.name = Sanitize(rec.ean)
            /\ rec.ean = iter.ean
            /\ images[f] # {}
            /\ \E p \in 1..3 : Late(p)

(***************************************************************************)
(* The decoder on its own: buffers laid out from sampled date-time fields  *)
(***************************************************************************)
DtlYears == {0, 2024, 2026, 10000}
DtlMonths == {0, 2, 13}
DtlDays == {0, 10, 29, 30}
DtlHours == {11, 24}
DtlMinutes == {6, 60}
DtlSeconds == {39, 60}
DtlNanos == {-1, 0, 999, 123000000, 999999999, 1000000000}
DtlSlots == {1, 7}
BufferSizes == {DB_SIZE, DB_SIZE - 1}

DtlWire(f, slot, size) ==
    [size |-> size, id |-> 7, ean |-> <<65>>,
     dtl |-> [i \in 1..7 |-> IF i = slot THEN f ELSE ZeroDtl]]

DtlInit ==
    /\ \E y \in DtlYears, m \in DtlMonths, d \in DtlDays, hh \in DtlHours,
          mm \in DtlMinutes, ss \in DtlSeconds, ns \in DtlNanos,
          slot \in DtlSlots, size \in BufferSizes :
        wire = DtlWire(Dtl(y, m, d, hh, mm, ss, ns), slot, size)
    /\ data = Layout(wire)
    /\ decoded = None

\* record = parse_db90(data); the optional result is None when it raised
Decode ==
    /\ IsNone(decoded)
    /\ decoded' = Some(parse_db90(data))
    /\ UNCHANGED <<data, wire>>
    /\ UNCHANGED loopVars /\ UNCHANGED envVars /\ UNCHANGED obsVars /\ UNCHANGED camVars

InitDtl == LoopInit /\ IdleCam /\ DtlInit
NextDtl == Decode
SpecDtl == InitDtl /\ [][NextDtl]_vars

\* the calendar, stated on the wire fields
MonthLength(y, m) ==
    IF m = 2 /\ y % 4 = 0 /\ (y % 100 # 0 \/ y % 400 = 0) THEN 29
    ELSE <<31, 28, 31, 30, 31, 30, 31, 31, 30, 31, 30, 31>>[m]
ValidInstant(f) ==
    /\ f.year \in 1..9999 /\ f.month \in 1..12
    /\ f.day >= 1 /\ f.day <= MonthLength(f.year, f.month)
    /\ f.hour \in 0..23 /\ f.minute \in 0..59 /\ f.second \in 0..59
    /\ f.nanosecond >= 0 /\ f.nanosecond < 1000000000

\* C8: on a 482-byte buffer parse_db90 does not raise and returns 7
\* positions; a position's timestamp is null when year, month and day are all
\* zero or the fields are no valid date/time (nanosecond below 0 or from 10^9
\* included), and else the instant of the fields with microsecond =
\* nanosecond integer-divided by 1000.
C8_DtlDecoding ==
    (~IsNone(decoded) /\ wire.size = DB_SIZE) =>
        /\ ~IsNone(Val(decoded))
        /\ Len(Val(Val(decoded)).positions) = 7
        /\ \A i \in 1..7 :
            LET f == wire.dtl[i]
                ts == Val(Val(decoded)).positions[i].timestamp
            IN  IF f.year = 0 /\ f.month = 0 /\ f.day = 0 THEN IsNone(ts)
                ELSE IF ~ValidInstant(f) THEN IsNone(ts)
                ELSE ts = Some([year |-> f.year, month |-> f.month, day |-> f.day,
                                hour |-> f.hour, minute |-> f.minute,
                                second |-> f.second,
                                microsecond |-> f.nanosecond \div 1000])

\* C8 witness: 2026-02-10 11:06:39 with nanosecond 123000000 has been decoded
\* to microsecond 123000
C8_Decoded123000 ==
    /\ ~IsNone(decoded) /\ ~IsNone(Val(decoded))
    /\ \E i \in 1..7 :
        /\ wire.dtl[i] = Dtl(2026, 2, 10, 11, 6, 39, 123000000)
        /\ Val(Val(decoded)).positions[i].timestamp =
              Some([year |-> 2026, month |-> 2, day |-> 10, hour |-> 11,
                    minute |-> 6, second |-> 39, microsecond |-> 123000])

(***************************************************************************)
(* The camera functions on their own: calls on sampled listings            *)
(***************************************************************************)
MaxListing == 3        \* entries in a listing

N38 == <<"2","0","2","6","-","0","2","-","1","0","_","1","1","-","0","6","-","3","8","-","1","2","3">>
N40 == <<"2","0","2","6","-","0","2","-","1","0","_","1","1","-","0","6","-","4","0","-","1","2","3">>
NFar == <<"1","9","9","9","-","0","1","-","0","1","_","0","0","-","0","0","-","0","0","-","0">>
\* entries of CAMERA_DIR: three directories around 11:06:39.123, the first
\* two equally far from it, a far one, an unparseable one, and a regular file
\* with the name of the nearest
CamEntries ==
    { [name |-> N38, kind |-> "dir"], [name |-> N40, kind |-> "dir"],
      [name |-> DirA, kind |-> "dir"], [name |-> DirA, kind |-> "file"],
      [name |-> NFar, kind |-> "dir"], [name |-> DirJunk, kind |-> "dir"] }
Poz2b == <<"P","O","Z","2","b",".","j","p","g">>
Poz3x == <<"P","O","Z","3","_","x",".","j","p","g">>
Poz2z == <<"P","O","Z","2","_","z",".","j","p","g">>
Poz2d == <<"P","O","Z","2","_","d">>
\* entries of a camera folder: the files of the three-file example, a second
\* POZ2_ file, and a directory named like one
FileEntries ==
    { [name |-> Poz2, kind |-> "file"], [name |-> Poz2b, kind |-> "file"],
      [name |-> Poz3x, kind |-> "file"], [name |-> Poz2z, kind |-> "file"],
      [name |-> Poz2d, kind |-> "dir"] }

\* os.listdir: up to MaxListing entries with distinct names, in any order
Listings(E) ==
    {l \in UNION {[1..n -> E] : n \in 0..MaxListing} :
        \A i, j \in 1..Len(l) : i # j => l[i].name # l[j].name}

Target == Val(Val(PlcRecords[2]).positions[1].timestamp)

CamInit ==
    \/ /\ \E l \in Listings(CamEntries) :
            call = [op |-> "find", ts |-> Target, entries |-> l]
       /\ ret = None
    \/ /\ \E l \in Listings(FileEntries), p \in {2, 3}, d \in {{}, {Poz3x}} :
            call = [op |-> "copy", files |-> l, position |-> p, dest |-> d]
       /\ ret = None

\* cam_dir = find_closest_camera_dir(pos_ts, CAMERA_DIR)
ReturnFind ==
    /\ call.op = "find" /\ IsNone(ret)
    /\ ret' = Some(find_closest_camera_dir(call.ts, call.entries))
    /\ UNCHANGED call
    /\ UNCHANGED loopVars /\ UNCHANGED envVars /\ UNCHANGED obsVars /\ UNCHANGED dtlVars

\* copy_position_image(cam_dir, pos, folder)
ReturnCopy ==
    /\ call.op = "copy" /\ IsNone(ret)
    /\ ret' = Some(copy_position_image(call.files, call.position, call.dest))
    /\ UNCHANGED call
    /\ UNCHANGED loopVars /\ UNCHANGED envVars /\ UNCHANGED obsVars /\ UNCHANGED dtlVars

InitCam == LoopInit /\ IdleDtl /\ CamInit
NextCam == ReturnFind \/ ReturnCopy
SpecCam == InitCam /\ [][NextCam]_vars

\* the files a mover call was given that are regular and start with prefix
Prefixed(prefix) ==
    {i \in 1..Len(call.files) :
        /\ call.files[i].kind = "file"
        /\ Len(call.files[i].name) >= Len(prefix)
        /\ \A k \in 1..Len(prefix) : call.files[i].name[k] = prefix[k]}

\* C6 as stated: the mover copies every regular file whose name starts with
\* POZ{p} (POZ2b.jpg included) into the destination's images, none else, and
\* the number of files it transferred is the number of such files.
C6_EveryPrefixedCopied ==
    (call # <<>> /\ call.op = "copy" /\ ~IsNone(ret)) =>
        LET hits == Prefixed(<<"P", "O", "Z", Digits[call.position + 1]>>)
        IN  /\ Val(ret).images = call.dest \cup {call.files[i].name : i \in hits}
            /\ Len(Val(ret).copied) = Cardinality(hits)

\* C6 amended: copy_position_image copies at most one file, the first entry
\* of the listing that is a regular file whose name starts with POZ{p}_
\* (underscore included), copies nothing else, and returns True exactly when
\* it copied a file.
C6_FirstUnderscoredCopied ==
    (call # <<>> /\ call.op = "copy" /\ ~IsNone(ret)) =>
        LET hits == Prefixed(<<"P", "O", "Z", Digits[call.position + 1], "_">>)
        IN  IF hits = {}
            THEN /\ Val(ret).ret = FALSE
                 /\ Val(ret).copied = <<>>
                 /\ Val(ret).images = call.dest
            ELSE \E i \in hits :
                 /\ \A j \in hits : i <= j
                 /\ Val(ret).ret = TRUE
                 /\ Val(ret).copied = <<call.files[i].name>>
                 /\ Val(ret).images = call.dest \cup {call.files[i].name}

\* C6 witness: position 2 on the listing POZ2_a.jpg, POZ2b.jpg, POZ3_x.jpg has
\* returned, with POZ2_a.jpg copied
C6_ThreeFileExample ==
    /\ call # <<>> /\ call.op = "copy" /\ call.position = 2 /\ call.dest = {}
    /\ call.files = << [name |-> Poz2, kind |-> "file"], [name |-> Poz2b, kind |-> "file"],
                       [name |-> Poz3x, kind |-> "file"] >>
    /\ ~IsNone(ret)
    /\ Val(ret).images = {Poz2}

\* |a - b| of two datetimes as <<whole seconds, microseconds>>
Gap(a, b) ==
    LET secs == (ToOrdinal(a) - ToOrdinal(b)) * 86400
                  + (a.hour - b.hour) * 3600 + (a.minute - b.minute) * 60
                  + (a.second - b.second)
        us == a.microsecond - b.microsecond
        Norm(s, u) == IF u < 0 THEN <<s - 1, u + 1000000>> ELSE <<s, u>>
    IN  IF secs > 0 \/ (secs = 0 /\ us >= 0) THEN Norm(secs, us) ELSE Norm(-secs, -us)
GapLeq(g, h) == g[1] < h[1] \/ (g[1] = h[1] /\ g[2] <= h[2])

\* the result of a find call is the first nearest entry of the set cands,
\* and None when cands is empty
NearestOf(cands) ==
    LET At0(i) == Val(parse_camera_dir_name(call.entries[i].name))
    IN  IF cands = {} THEN Val(ret) = None
        ELSE \E i \in cands :
            /\ Val(ret) = Some(i)
            /\ \A j \in cands : GapLeq(Gap(At0(i), call.ts), Gap(At0(j), call.ts))
            /\ \A j \in cands : j < i =>
                  ~GapLeq(Gap(At0(j), call.ts), Gap(At0(i), call.ts))

\* C7 as stated: the result is the nearest, first on ties, among all entries
\* of the root directory whose names parse; None when no name parses.
C7_NearestOfParseable ==
    (call # <<>> /\ call.op = "find" /\ ~IsNone(ret)) =>
        NearestOf({i \in 1..Len(call.entries) :
                      ~IsNone(parse_camera_dir_name(call.entries[i].name))})

\* C7 amended: the result is the nearest, first on ties, among the entries
\* that are directories and whose names parse, however far it is; other
\* entries never influence it; None when there is no such entry.
C7_NearestDirectory ==
    (call # <<>> /\ call.op = "find" /\ ~IsNone(ret)) =>
        NearestOf({i \in 1..Len(call.entries) :
                      /\ call.entries[i].kind = "dir"
                      /\ ~IsNone(parse_camera_dir_name(call.entries[i].name))})

\* C7 witness: a regular file with a parseable name listed first, then two
\* directories equally far from the target; the first directory is returned
C7_TieFirstDirectory ==
    /\ call # <<>> /\ call.op = "find"
    /\ call.entries = << [name |-> DirA, kind |-> "file"], [name |-> N40, kind |-> "dir"],
                         [name |-> N38, kind |-> "dir"] >>
    /\ ret = Some(Some(2))

\* C11: last_ean is assigned only when the whole event branch (the append,
\* then positions 1..3) has completed without an exception, and then it is the
\* identifier of the event; an exception in the branch leaves last_ean as it
\* was, so the failed identifier still differs from it; the next poll that
\* decodes that identifier fires again, and the fired branch starts with
\* another ledger append.
C11_BranchFailedUnseen ==
    iter.err = "branch" => (iter.fired /\ iter.ean # <<>> /\ Some(iter.ean) # last_ean)
C11_AssignedAfterBranch ==
    /\ []C11_BranchFailedUnseen
    /\ [][(last_ean' # last_ean /\ pc # "stopped")
            => (/\ pc = "pos" /\ pos = 3 /\ pc' = "sleep"
                /\ iter.fired /\ iter'.err = "none"
                /\ iter.ops # <<>> /\ iter.ops[1] = "persist"
                /\ last_ean' = Some(iter.ean))]_vars
    /\ [][(iter.err = "none" /\ iter'.err = "branch")
            => (pc \in {"save", "pos"} /\ pc' = "sleep" /\ last_ean' = last_ean)]_vars
    /\ [][(pc \in {"sleep", "while"} /\ pc' # "stopped") => last_ean' = last_ean]_vars
    /\ [][(pc = "read" /\ pc' # "read" /\ iter'.err = "none" /\ iter'.ean # <<>>)
            => (iter'.fired <=> Some(iter'.ean) # last_ean)]_vars
    /\ [][(pc = "save" /\ pc' = "pos")
            => (/\ hist'.calls = hist.calls + 1
                /\ plc'.rows = plc.rows + 1
                /\ \E f \in DOMAIN csv' :
                    /\ csv'[f][Len(csv'[f])].ean = iter.ean
                    /\ csv'[f][Len(csv'[f])].call = hist'.calls)]_vars

\* C11 witness: after an exception in the branch of a unit, the running
\* process has detected the same unit again and appended a second row for it
C11_SecondAppendAfterFailure ==
    /\ pc = "pos" /\ iter.fired /\ hist.caught
    /\ plc.rows = 2
    /\ last_ean # Some(iter.ean)
    /\ \E f \in DOMAIN csv : \E i, j \in Rows(f) :
        /\ i < j
        /\ csv[f][i].ean = iter.ean /\ csv[f][j].ean = iter.ean
        /\ csv[f][i].call > hist.boot
        /\ csv[f][j].call = hist.calls

====
